---------------------------- MODULE Spec2Model ----------------------------
(***************************************************************************)
(* ixlist: a doubly linked list kept in one vector (src/src/lib.rs).       *)
(*                                                                         *)
(* The list is the pair (link, nodes): link[0] is the head index, link[1]  *)
(* the tail index, nodes the backing vector.  A node is (link, value) with *)
(* link[0] the previous and link[1] the next index.  Vector indices are    *)
(* 0-based as in the source, so a vector is a function on 0..len-1.        *)
(***************************************************************************)
EXTENDS Integers, Sequences, FiniteSets, TLC

\* ------------------------------------------------------------------------
\* Bounds of the model
\* ------------------------------------------------------------------------

\* The longest vector the model lets the list grow to.
MaxLen == 3

\* The longest input sequence handed to extend / from_iter.
MaxExt == 3

\* The largest step count handed to Seek::Forward / Seek::Backward.
MaxSeek == 2

\* The element type T, instantiated with two distinguishable values.
Values == {1, 2}

\* The cursor test: the length of its list, the value it inserts, the
\* next() calls it makes after the insert; the longest walk followed
\* before the insert.
ScenarioLen == 5
ScenarioValue == 77
ScenarioNexts == 2
MaxWalk == 4

\* ------------------------------------------------------------------------
\* Constants and types of the source
\* ------------------------------------------------------------------------

\* const END: usize = std::usize::MAX.  The model's indices stay far below
\* it; it is only ever compared, never computed with.
END == 2147483647

\* enum Terminal { Head = 0, Tail = 1 }
Head_ == 0
Tail_ == 1

\* Terminal::opposite
opposite(t) == IF t = Head_ THEN Tail_ ELSE Head_

\* Option<T>
None == [some |-> FALSE, val |-> 0]
Some(v) == [some |-> TRUE, val |-> v]

\* Vec::len
VecLen(ns) == Cardinality(DOMAIN ns)

\* The empty vector.
EmptyVec == [i \in {} |-> 0]

\* Vec::push
VecPush(ns, node) == [i \in 0..VecLen(ns) |-> IF i = VecLen(ns) THEN node ELSE ns[i]]

\* Vec::swap_remove(h): the last element takes slot h, the vector shrinks.
\* Mutant: Vec::remove in the place of Vec::swap_remove, every element
\* behind h moving down one slot.
shift_remove(ns, h) ==
    [i \in 0..(VecLen(ns) - 2) |-> IF i < h THEN ns[i] ELSE ns[i + 1]]

swap_remove(ns, h) ==
    [i \in 0..(VecLen(ns) - 2) |-> IF i = h THEN ns[VecLen(ns) - 1] ELSE ns[i]]

\* slice.get(i) is Some exactly for these indices.
InRange(ns, i) == i \in DOMAIN ns

\* A two-slot link array [a, b], indexed 0 and 1.
Link2(a, b) == [i \in {0, 1} |-> IF i = 0 THEN a ELSE b]

\* Node::new(value, prev, next)
Node_new(value, prev, next) == [link |-> Link2(prev, next), value |-> value]

\* List::with_capacity / List::new
List_new == [link |-> Link2(END, END), nodes |-> EmptyVec]

\* ------------------------------------------------------------------------
\* push / pop at either terminal
\* ------------------------------------------------------------------------

\* Mutant: the old terminal node is not told about its new neighbour.
push_terminal_nolink(l, value, t) ==
    LET index == VecLen(l.nodes)
        node  == [Node_new(value, END, END) EXCEPT !.link[1 - t] = l.link[t]]
        hit   == InRange(l.nodes, l.link[t])
        link1 == IF hit THEN l.link ELSE [l.link EXCEPT ![1 - t] = index]
    IN  [link  |-> [link1 EXCEPT ![t] = index],
         nodes |-> VecPush(l.nodes, node)]

\* List::push_terminal
push_terminal(l, value, t) ==
    LET index  == VecLen(l.nodes)
        node   == [Node_new(value, END, END) EXCEPT !.link[1 - t] = l.link[t]]
        hit    == InRange(l.nodes, l.link[t])
        link1  == IF hit THEN l.link ELSE [l.link EXCEPT ![1 - t] = index]
        nodes1 == IF hit THEN [l.nodes EXCEPT ![l.link[t]].link[t] = index]
                         ELSE l.nodes
    IN  [link  |-> [link1 EXCEPT ![t] = index],
         nodes |-> VecPush(nodes1, node)]

\* List::prepare_remove: unlink the node at idx (idx is a valid index).
prepare_remove(l, idx) ==
    LET prev == l.nodes[idx].link[0]
        next == l.nodes[idx].link[1]
        n1   == IF InRange(l.nodes, prev)
                THEN [l.nodes EXCEPT ![prev].link[1] = next] ELSE l.nodes
        n2   == IF InRange(n1, next)
                THEN [n1 EXCEPT ![next].link[0] = prev] ELSE n1
    IN  [l EXCEPT !.nodes = n2]

\* List::prepare_move: links to the node at idx are pointed at to_index.
prepare_move(l, idx, to_index) ==
    LET prev == l.nodes[idx].link[0]
        next == l.nodes[idx].link[1]
        n1   == IF InRange(l.nodes, prev)
                THEN [l.nodes EXCEPT ![prev].link[1] = to_index] ELSE l.nodes
        n2   == IF InRange(n1, next)
                THEN [n1 EXCEPT ![next].link[0] = to_index] ELSE n1
    IN  [l EXCEPT !.nodes = n2]

\* List::prepare_swap
prepare_swap(l, free_spot, moved_index) ==
    IF free_spot = moved_index THEN l
    ELSE LET l1 == prepare_move(l, moved_index, free_spot)
             l2 == IF l1.link[0] = moved_index
                   THEN [l1 EXCEPT !.link[0] = free_spot] ELSE l1
         IN  IF l2.link[1] = moved_index
             THEN [l2 EXCEPT !.link[1] = free_spot] ELSE l2

\* Mutant: the vector is compacted without repairing the links to the
\* element that moves (prepare_swap left out).
pop_terminal_noswap(l, t) ==
    IF l.link[t] = END THEN [list |-> l, ret |-> None, panic |-> FALSE]
    ELSE LET h == l.link[t] IN
         IF ~InRange(l.nodes, h) THEN [list |-> l, ret |-> None, panic |-> TRUE]
         ELSE LET new_terminal == l.nodes[h].link[1 - t]
                  l1 == prepare_remove(l, h)
                  l2 == [l1 EXCEPT !.link[t] = new_terminal]
                  l3 == IF l2.link[t] = END
                        THEN [l2 EXCEPT !.link[1 - t] = END] ELSE l2
              IN  [list  |-> [l3 EXCEPT !.nodes = swap_remove(l3.nodes, h)],
                   ret   |-> Some(l3.nodes[h].value),
                   panic |-> FALSE]

\* Mutant: a pop reports the value but leaves the node in the vector.
pop_terminal_keep(l, t) ==
    IF l.link[t] = END THEN [list |-> l, ret |-> None, panic |-> FALSE]
    ELSE LET h == l.link[t] IN
         IF ~InRange(l.nodes, h) THEN [list |-> l, ret |-> None, panic |-> TRUE]
         ELSE [list |-> l, ret |-> Some(l.nodes[h].value), panic |-> FALSE]

\* Mutant: the test for an empty list is left out, so that the call goes
\* on to index the vector with END.
pop_terminal_nocheck(l, t) ==
    LET h == l.link[t] IN
    IF ~InRange(l.nodes, h) THEN [list |-> l, ret |-> None, panic |-> TRUE]
    ELSE LET new_terminal == l.nodes[h].link[1 - t]
             l1 == prepare_remove(l, h)
             l2 == [l1 EXCEPT !.link[t] = new_terminal]
             l3 == IF l2.link[t] = END
                   THEN [l2 EXCEPT !.link[1 - t] = END]
                   ELSE prepare_swap(l2, h, VecLen(l2.nodes) - 1)
         IN  [list  |-> [l3 EXCEPT !.nodes = swap_remove(l3.nodes, h)],
              ret   |-> Some(l3.nodes[h].value),
              panic |-> FALSE]

\* List::pop_terminal.  The result carries the list after the call, the
\* returned Option and whether an index panic ended the call: self.nodes[h]
\* panics, before anything is written, when h is no index of the vector.
pop_terminal(l, t) ==
    IF l.link[t] = END THEN [list |-> l, ret |-> None, panic |-> FALSE]
    ELSE LET h == l.link[t] IN
         IF ~InRange(l.nodes, h) THEN [list |-> l, ret |-> None, panic |-> TRUE]
         ELSE LET new_terminal == l.nodes[h].link[1 - t]
                  l1 == prepare_remove(l, h)
                  l2 == [l1 EXCEPT !.link[t] = new_terminal]
                  l3 == IF l2.link[t] = END
                        THEN [l2 EXCEPT !.link[1 - t] = END]
                        ELSE prepare_swap(l2, h, VecLen(l2.nodes) - 1)
              IN  [list  |-> [l3 EXCEPT !.nodes = swap_remove(l3.nodes, h)],
                   ret   |-> Some(l3.nodes[h].value),
                   panic |-> FALSE]


\* ------------------------------------------------------------------------
\* linearize
\* ------------------------------------------------------------------------

\* The labelling loop of List::linearize: `while let Some(n) =
\* self.nodes.get_mut(head)`, each pass writing the running index into the
\* node's next slot after reading the old one.
RECURSIVE label_nodes(_, _, _)
label_nodes(ns, head, index) ==
    IF ~InRange(ns, head) THEN ns
    ELSE label_nodes([ns EXCEPT ![head].link[1] = index + 1],
                     ns[head].link[1], index + 1)

\* The orders sort_unstable_by_key(Node::next) may leave the vector in:
\* every permutation p (new slot i holds old slot p[i]) with non-decreasing
\* keys.  Distinct keys leave exactly one.
SortedPerms(ns) ==
    {p \in [DOMAIN ns -> DOMAIN ns] :
        /\ \A i, j \in DOMAIN ns : i # j => p[i] # p[j]
        /\ \A i, j \in DOMAIN ns : i < j => ns[p[i]].link[1] <= ns[p[j]].link[1]}

\* Mutant: linearize without the loop that rewrites the prev links.
relabel_noprev(sorted) ==
    LET n  == VecLen(sorted)
        n2 == [sorted EXCEPT ![0].link[0] = END]
        n3 == [n2 EXCEPT ![n - 1].link[1] = END]
    IN  [link |-> Link2(0, n - 1), nodes |-> n3]

\* The part of List::linearize after the sort, given the sorted vector.
relabel(sorted) ==
    LET n  == VecLen(sorted)
        n1 == [i \in DOMAIN sorted |->
                 IF i >= 1 THEN [sorted[i] EXCEPT !.link[0] = i - 1]
                           ELSE sorted[i]]
        n2 == [n1 EXCEPT ![0].link[0] = END]
        n3 == [n2 EXCEPT ![n - 1].link[1] = END]
    IN  [link |-> Link2(0, n - 1), nodes |-> n3]

\* Mutant: linearize without `self.link[0] = 0`, the head staying where it
\* was.
linearize_keephead(l) ==
    IF VecLen(l.nodes) = 0 THEN {l}
    ELSE LET labelled == label_nodes(l.nodes, l.link[0], 0)
         IN  {[relabel([i \in DOMAIN labelled |-> labelled[p[i]]])
                   EXCEPT !.link[0] = l.link[0]] :
                 p \in SortedPerms(labelled)}

\* List::linearize: the set of lists the call may leave.
linearize(l) ==
    IF VecLen(l.nodes) = 0 THEN {l}
    ELSE LET labelled == label_nodes(l.nodes, l.link[0], 0)
         IN  {relabel([i \in DOMAIN labelled |-> labelled[p[i]]]) :
                 p \in SortedPerms(labelled)}

\* ------------------------------------------------------------------------
\* extend / from_iter
\* ------------------------------------------------------------------------

\* The two loops of Extend::extend: the first element is pushed with
\* (prev, next) = (tail, index + 1), the i-th later one (i from 0) with
\* (index + i, index + i + 2).
RECURSIVE extend_push(_, _, _, _, _)
extend_push(ns, tail, index, iter, k) ==
    IF k > Len(iter) THEN ns
    ELSE LET node == IF k = 1
                     THEN Node_new(iter[k], tail, index + 1)
                     ELSE Node_new(iter[k], index + (k - 2), index + (k - 2) + 2)
         IN  extend_push(VecPush(ns, node), tail, index, iter, k + 1)

\* Mutant: the old tail is not linked to the first new node.
extend_nolink(l, iter) ==
    LET tail   == l.link[1]
        index  == VecLen(l.nodes)
        pushed == extend_push(l.nodes, tail, index, iter, 1)
    IN  IF VecLen(pushed) = 0 THEN [l EXCEPT !.nodes = pushed]
        ELSE LET hit == InRange(pushed, l.link[1])
                 link1  == IF hit THEN l.link ELSE [l.link EXCEPT ![0] = index]
                 link2  == [link1 EXCEPT ![1] = VecLen(pushed) - 1]
             IN  [link  |-> link2,
                  nodes |-> [pushed EXCEPT ![link2[1]].link[1] = END]]

\* Extend::extend
extend(l, iter) ==
    LET tail   == l.link[1]
        index  == VecLen(l.nodes)
        pushed == extend_push(l.nodes, tail, index, iter, 1)
    IN  IF VecLen(pushed) = 0 THEN [l EXCEPT !.nodes = pushed]
        ELSE LET hit == InRange(pushed, l.link[1])
                 link1  == IF hit THEN l.link ELSE [l.link EXCEPT ![0] = index]
                 nodes1 == IF hit THEN [pushed EXCEPT ![l.link[1]].link[1] = index]
                                  ELSE pushed
                 link2  == [link1 EXCEPT ![1] = VecLen(nodes1) - 1]
             IN  [link  |-> link2,
                  nodes |-> [nodes1 EXCEPT ![link2[1]].link[1] = END]]

\* FromIterator::from_iter
from_iter(iter) == extend(List_new, iter)


\* ------------------------------------------------------------------------
\* Iter and IterMut
\* ------------------------------------------------------------------------

\* List::iter / List::iter_mut: the iterator's own link copy and count.
iter(l) == [link |-> l.link, taken |-> 0]

\* An iterator value that is not in use.
NoIter == [link |-> Link2(END, END), taken |-> 0]

\* Mutant: the step follows the link on its own side, n.link[h], instead
\* of the one leading to the opposite terminal.
Iter_next_terminal_sameside(it, ns, term) ==
    LET h == term
        t == opposite(term)
    IN  IF ~InRange(ns, it.link[h])
        THEN [it |-> it, ret |-> None, slot |-> END]
        ELSE LET n  == ns[it.link[h]]
                 i1 == [it EXCEPT !.taken = it.taken + 1]
                 i2 == IF i1.link[h] = i1.link[t]
                       THEN [i1 EXCEPT !.link = Link2(END, END)]
                       ELSE [i1 EXCEPT !.link[h] = n.link[h]]
             IN  [it |-> i2, ret |-> Some(n.value), slot |-> it.link[h]]

\* Mutant: when the two ends meet only the end that stepped is set to END.
Iter_next_terminal_oneside(it, ns, term) ==
    LET h == term
        t == opposite(term)
    IN  IF ~InRange(ns, it.link[h])
        THEN [it |-> it, ret |-> None, slot |-> END]
        ELSE LET n  == ns[it.link[h]]
                 i1 == [it EXCEPT !.taken = it.taken + 1]
                 i2 == IF i1.link[h] = i1.link[t]
                       THEN [i1 EXCEPT !.link[h] = END]
                       ELSE [i1 EXCEPT !.link[h] = n.link[t]]
             IN  [it |-> i2, ret |-> Some(n.value), slot |-> it.link[h]]

\* Iter::next_terminal.  The result carries the iterator after the call,
\* the returned Option and the slot the returned reference points into.
Iter_next_terminal(it, ns, term) ==
    LET h == term
        t == opposite(term)
    IN  IF ~InRange(ns, it.link[h])
        THEN [it |-> it, ret |-> None, slot |-> END]
        ELSE LET n  == ns[it.link[h]]
                 i1 == [it EXCEPT !.taken = it.taken + 1]
                 i2 == IF i1.link[h] = i1.link[t]
                       THEN [i1 EXCEPT !.link = Link2(END, END)]
                       ELSE [i1 EXCEPT !.link[h] = n.link[t]]
             IN  [it |-> i2, ret |-> Some(n.value), slot |-> it.link[h]]

\* Mutant: the two ends are not reset to END when they meet.
IterMut_next_terminal_nomeet(it, ns, term) ==
    LET h == term
        t == opposite(term)
    IN  IF ~InRange(ns, it.link[h])
        THEN [it |-> it, ret |-> None, slot |-> END]
        ELSE LET n  == ns[it.link[h]]
                 i1 == [it EXCEPT !.taken = it.taken + 1]
                 i2 == [i1 EXCEPT !.link[h] = n.link[t]]
             IN  [it |-> i2, ret |-> Some(n.value), slot |-> it.link[h]]

\* IterMut::next_terminal
IterMut_next_terminal(it, ns, term) ==
    LET h == term
        t == opposite(term)
    IN  IF ~InRange(ns, it.link[h])
        THEN [it |-> it, ret |-> None, slot |-> END]
        ELSE LET n  == ns[it.link[h]]
                 i1 == [it EXCEPT !.taken = it.taken + 1]
                 i2 == IF i1.link[h] = i1.link[t]
                       THEN [i1 EXCEPT !.link = Link2(END, END)]
                       ELSE [i1 EXCEPT !.link[h] = n.link[t]]
             IN  [it |-> i2, ret |-> Some(n.value), slot |-> it.link[h]]

\* Mutant: the elements already taken are not subtracted.
size_hint_whole(it, ns) ==
    LET len == VecLen(ns) IN <<len, Some(len)>>

\* Iter::size_hint / IterMut::size_hint: (len, Some(len)) with
\* len = self.nodes.len() - self.taken.  The subtraction is on usize; a
\* negative number here is the case where it underflows.
size_hint(it, ns) ==
    LET len == VecLen(ns) - it.taken IN <<len, Some(len)>>

\* ------------------------------------------------------------------------
\* Cursor
\* ------------------------------------------------------------------------

\* Mutant: next() at END returns None and leaves the position at END.
Cursor_next_nowrap(l, pos) ==
    IF ~InRange(l.nodes, pos)
    THEN [pos |-> pos, ret |-> None]
    ELSE [pos |-> l.nodes[pos].link[1], ret |-> Some(l.nodes[pos].value)]

\* Cursor::next: the position after the call and the returned Option.
Cursor_next(l, pos) ==
    IF ~InRange(l.nodes, pos)
    THEN [pos |-> l.link[0], ret |-> None]
    ELSE [pos |-> l.nodes[pos].link[1], ret |-> Some(l.nodes[pos].value)]

\* Mutant: prev() returns the element before the position without
\* `self.pos = prev`.
Cursor_prev_nomove(l, pos) ==
    IF pos = l.link[0] THEN [pos |-> END, ret |-> None]
    ELSE LET prev == IF ~InRange(l.nodes, pos) THEN l.link[1]
                     ELSE l.nodes[pos].link[0]
         IN  IF ~InRange(l.nodes, prev) THEN [pos |-> pos, ret |-> None]
             ELSE [pos |-> pos, ret |-> Some(l.nodes[prev].value)]

\* Mutant: prev() at END looks up the head where the code looks up the tail.
Cursor_prev_fromhead(l, pos) ==
    IF pos = l.link[0] THEN [pos |-> END, ret |-> None]
    ELSE LET prev == IF ~InRange(l.nodes, pos) THEN l.link[0]
                     ELSE l.nodes[pos].link[0]
         IN  IF ~InRange(l.nodes, prev) THEN [pos |-> pos, ret |-> None]
             ELSE [pos |-> prev, ret |-> Some(l.nodes[prev].value)]

\* Mutant: prev() at the head returns None and leaves the position there.
Cursor_prev_stay(l, pos) ==
    IF pos = l.link[0] THEN [pos |-> pos, ret |-> None]
    ELSE LET prev == IF ~InRange(l.nodes, pos) THEN l.link[1]
                     ELSE l.nodes[pos].link[0]
         IN  IF ~InRange(l.nodes, prev) THEN [pos |-> pos, ret |-> None]
             ELSE [pos |-> prev, ret |-> Some(l.nodes[prev].value)]

\* Cursor::prev
Cursor_prev(l, pos) ==
    IF pos = l.link[0] THEN [pos |-> END, ret |-> None]
    ELSE LET prev == IF ~InRange(l.nodes, pos) THEN l.link[1]
                     ELSE l.nodes[pos].link[0]
         IN  IF ~InRange(l.nodes, prev) THEN [pos |-> pos, ret |-> None]
             ELSE [pos |-> prev, ret |-> Some(l.nodes[prev].value)]

\* Mutant: the splice between two nodes forgets `self.pos = index`.
Cursor_insert_stay(l, pos, value) ==
    LET index == VecLen(l.nodes) IN
    IF pos = END
    THEN [list |-> push_terminal(l, value, Tail_), pos |-> index, panic |-> FALSE]
    ELSE IF pos = l.link[0]
    THEN [list |-> push_terminal(l, value, Head_), pos |-> index, panic |-> FALSE]
    ELSE IF ~InRange(l.nodes, pos)
    THEN [list |-> l, pos |-> pos, panic |-> TRUE]
    ELSE LET prev   == l.nodes[pos].link[0]
             node   == Node_new(value, prev, pos)
             hit    == InRange(l.nodes, prev)
             link1  == IF hit THEN l.link ELSE [l.link EXCEPT ![0] = index]
             nodes1 == IF hit THEN [l.nodes EXCEPT ![prev].link[1] = index]
                              ELSE l.nodes
             nodes2 == [nodes1 EXCEPT ![pos].link[0] = index]
         IN  [list  |-> [link |-> link1, nodes |-> VecPush(nodes2, node)],
              pos   |-> pos,
              panic |-> FALSE]

\* Mutant: the splice between two nodes also writes the tail, as push_back
\* does.
Cursor_insert_tail(l, pos, value) ==
    LET index == VecLen(l.nodes) IN
    IF pos = END
    THEN [list |-> push_terminal(l, value, Tail_), pos |-> index, panic |-> FALSE]
    ELSE IF pos = l.link[0]
    THEN [list |-> push_terminal(l, value, Head_), pos |-> index, panic |-> FALSE]
    ELSE IF ~InRange(l.nodes, pos)
    THEN [list |-> l, pos |-> pos, panic |-> TRUE]
    ELSE LET prev   == l.nodes[pos].link[0]
             node   == Node_new(value, prev, pos)
             hit    == InRange(l.nodes, prev)
             link1  == IF hit THEN l.link ELSE [l.link EXCEPT ![0] = index]
             nodes1 == IF hit THEN [l.nodes EXCEPT ![prev].link[1] = index]
                              ELSE l.nodes
             nodes2 == [nodes1 EXCEPT ![pos].link[0] = index]
         IN  [list  |-> [link  |-> [link1 EXCEPT ![1] = index],
                         nodes |-> VecPush(nodes2, node)],
              pos   |-> index,
              panic |-> FALSE]

\* Cursor::insert.  self.list.nodes[self.pos] panics, before anything is
\* written, when the position is neither END, nor the head, nor an index of
\* the vector.
Cursor_insert(l, pos, value) ==
    LET index == VecLen(l.nodes) IN
    IF pos = END
    THEN [list |-> push_terminal(l, value, Tail_), pos |-> index, panic |-> FALSE]
    ELSE IF pos = l.link[0]
    THEN [list |-> push_terminal(l, value, Head_), pos |-> index, panic |-> FALSE]
    ELSE IF ~InRange(l.nodes, pos)
    THEN [list |-> l, pos |-> pos, panic |-> TRUE]
    ELSE LET prev   == l.nodes[pos].link[0]
             node   == Node_new(value, prev, pos)
             hit    == InRange(l.nodes, prev)
             link1  == IF hit THEN l.link ELSE [l.link EXCEPT ![0] = index]
             nodes1 == IF hit THEN [l.nodes EXCEPT ![prev].link[1] = index]
                              ELSE l.nodes
             nodes2 == [nodes1 EXCEPT ![pos].link[0] = index]
         IN  [list  |-> [link |-> link1, nodes |-> VecPush(nodes2, node)],
              pos   |-> index,
              panic |-> FALSE]

\* enum Seek
SeekForward(n)  == [kind |-> "Forward", n |-> n]
SeekBackward(n) == [kind |-> "Backward", n |-> n]
SeekHead == [kind |-> "Head", n |-> 0]
SeekTail == [kind |-> "Tail", n |-> 0]

\* Mutant: Forward(n) without the break at END, so the steps wrap around.
RECURSIVE seek_forward_wrap(_, _, _)
seek_forward_wrap(l, pos, n) ==
    IF n = 0 THEN pos
    ELSE seek_forward_wrap(l, Cursor_next(l, pos).pos, n - 1)

\* Seek::Forward(n): `for _ in 0..n { if pos == END { break; } next(); }`
RECURSIVE seek_forward(_, _, _)
seek_forward(l, pos, n) ==
    IF n = 0 \/ pos = END THEN pos
    ELSE seek_forward(l, Cursor_next(l, pos).pos, n - 1)

\* Seek::Backward(n): `for _ in 0..n { if pos == head { break; } prev(); }`
RECURSIVE seek_backward(_, _, _)
seek_backward(l, pos, n) ==
    IF n = 0 \/ pos = l.link[0] THEN pos
    ELSE seek_backward(l, Cursor_prev(l, pos).pos, n - 1)

\* Cursor::seek: the position after the call.
Cursor_seek(l, pos, offset) ==
    CASE offset.kind = "Head"     -> l.link[0]
      [] offset.kind = "Tail"     -> END
      [] offset.kind = "Forward"  -> seek_forward(l, pos, offset.n)
      [] offset.kind = "Backward" -> seek_backward(l, pos, offset.n)


\* ------------------------------------------------------------------------
\* State
\* ------------------------------------------------------------------------

VARIABLES
    link,       \* List.link: [head, tail]
    nodes,      \* List.nodes
    mode,       \* which borrow of the list is alive: "idle" (none),
                \* "cursor", "iter" or "iter_mut"
    pos,        \* Cursor.pos while a cursor is alive, END otherwise
    it,         \* Iter / IterMut fields (link, taken) while one is alive
    yielded,    \* per terminal, the slots the live iterator has handed out
    last,       \* the last call, its value arguments and what it returned
    panicked,   \* an index panic has ended the program
    script      \* the cursor calls made so far in the scenario of the
                \* cursor test; empty outside it

vars == <<link, nodes, mode, pos, it, yielded, last, panicked, script>>

\* The list as one value.
list == [link |-> link, nodes |-> nodes]

NoYield == Link2(<<>>, <<>>)

\* A call: its name, the arguments handed to it and what it returned.
Call(op, arg, ret) == [op |-> op, arg |-> arg, ret |-> ret]

SetList(l) == link' = l.link /\ nodes' = l.nodes

\* The steps one iterator is followed for: a well-formed list never needs
\* more than its length.
MaxTaken == MaxLen + 1

\* The input sequences handed to extend and from_iter.
ExtInputs == UNION {[1..k -> Values] : k \in 0..MaxExt}

\* The offsets handed to Cursor::seek.
SeekInputs ==
    {SeekHead, SeekTail}
        \cup {SeekForward(n) : n \in 0..MaxSeek}
        \cup {SeekBackward(n) : n \in 0..MaxSeek}

\* let mut l = List::new();
Init ==
    /\ link = List_new.link
    /\ nodes = List_new.nodes
    /\ mode = "idle"
    /\ pos = END
    /\ it = NoIter
    /\ yielded = NoYield
    /\ last = Call("new", <<>>, None)
    /\ panicked = FALSE
    /\ script = <<>>

\* ------------------------------------------------------------------------
\* Calls on the list itself
\* ------------------------------------------------------------------------

Idle == mode = "idle" /\ ~panicked

\* l.push_front(v)
PushFront(v) ==
    /\ Idle
    /\ VecLen(nodes) < MaxLen
    /\ SetList(push_terminal(list, v, Head_))
    /\ last' = Call("push_front", <<v>>, None)
    /\ UNCHANGED <<script, mode, pos, it, yielded, panicked>>

\* l.push_back(v)
PushBack(v) ==
    /\ Idle
    /\ VecLen(nodes) < MaxLen
    /\ SetList(push_terminal(list, v, Tail_))
    /\ last' = Call("push_back", <<v>>, None)
    /\ UNCHANGED <<script, mode, pos, it, yielded, panicked>>

\* l.pop_front()
PopFront ==
    /\ Idle
    /\ LET r == pop_terminal(list, Head_) IN
        /\ SetList(r.list)
        /\ last' = Call("pop_front", <<>>, r.ret)
        /\ panicked' = r.panic
    /\ UNCHANGED <<script, mode, pos, it, yielded>>

\* l.pop_back()
PopBack ==
    /\ Idle
    /\ LET r == pop_terminal(list, Tail_) IN
        /\ SetList(r.list)
        /\ last' = Call("pop_back", <<>>, r.ret)
        /\ panicked' = r.panic
    /\ UNCHANGED <<script, mode, pos, it, yielded>>

\* l.linearize()
Linearize ==
    /\ Idle
    /\ \E l \in linearize(list) : SetList(l)
    /\ last' = Call("linearize", <<>>, None)
    /\ UNCHANGED <<script, mode, pos, it, yielded, panicked>>

\* l.extend(seq)
Extend(seq) ==
    /\ Idle
    /\ VecLen(nodes) + Len(seq) <= MaxLen
    /\ SetList(extend(list, seq))
    /\ last' = Call("extend", seq, None)
    /\ UNCHANGED <<script, mode, pos, it, yielded, panicked>>

\* l = seq.into_iter().collect()
FromIter(seq) ==
    /\ Idle
    /\ SetList(from_iter(seq))
    /\ last' = Call("from_iter", seq, None)
    /\ UNCHANGED <<script, mode, pos, it, yielded, panicked>>

\* ------------------------------------------------------------------------
\* Calls on a cursor
\* ------------------------------------------------------------------------

InCursor == mode = "cursor" /\ ~panicked

\* let mut c = l.cursor();
CursorOpen ==
    /\ Idle
    /\ mode' = "cursor"
    /\ pos' = link[0]
    /\ last' = Call("cursor", <<>>, None)
    /\ UNCHANGED <<script, link, nodes, it, yielded, panicked>>

\* c.next()
CursorNext ==
    /\ InCursor
    /\ LET r == Cursor_next(list, pos) IN
        /\ pos' = r.pos
        /\ last' = Call("cursor_next", <<>>, r.ret)
    /\ UNCHANGED <<script, link, nodes, mode, it, yielded, panicked>>

\* c.prev()
CursorPrev ==
    /\ InCursor
    /\ LET r == Cursor_prev(list, pos) IN
        /\ pos' = r.pos
        /\ last' = Call("cursor_prev", <<>>, r.ret)
    /\ UNCHANGED <<script, link, nodes, mode, it, yielded, panicked>>

\* c.insert(v)
CursorInsert(v) ==
    /\ InCursor
    /\ VecLen(nodes) < MaxLen
    /\ LET r == Cursor_insert(list, pos, v) IN
        /\ SetList(r.list)
        /\ pos' = r.pos
        /\ panicked' = r.panic
    /\ last' = Call("cursor_insert", <<v>>, None)
    /\ UNCHANGED <<script, mode, it, yielded>>

\* c.seek(offset)
CursorSeek(offset) ==
    /\ InCursor
    /\ pos' = Cursor_seek(list, pos, offset)
    /\ last' = Call("cursor_seek", <<offset>>, None)
    /\ UNCHANGED <<script, link, nodes, mode, it, yielded, panicked>>

\* The cursor goes out of scope.
CursorDrop ==
    /\ InCursor
    /\ mode' = "idle"
    /\ pos' = END
    /\ last' = Call("cursor_drop", <<>>, None)
    /\ UNCHANGED <<script, link, nodes, it, yielded, panicked>>

\* ------------------------------------------------------------------------
\* Calls on an iterator
\* ------------------------------------------------------------------------

\* let mut i = l.iter();
IterOpen ==
    /\ Idle
    /\ mode' = "iter"
    /\ it' = iter(list)
    /\ yielded' = NoYield
    /\ last' = Call("iter", <<>>, None)
    /\ UNCHANGED <<script, link, nodes, pos, panicked>>

\* let mut i = l.iter_mut();
IterMutOpen ==
    /\ Idle
    /\ mode' = "iter_mut"
    /\ it' = iter(list)
    /\ yielded' = NoYield
    /\ last' = Call("iter_mut", <<>>, None)
    /\ UNCHANGED <<script, link, nodes, pos, panicked>>

\* What a step of either iterator does to the state.
Stepped(r, term, op) ==
    /\ it' = r.it
    /\ yielded' = IF r.ret.some
                  THEN [yielded EXCEPT ![term] = Append(@, r.slot)]
                  ELSE yielded
    /\ last' = Call(op, <<>>, r.ret)
    /\ UNCHANGED <<script, link, nodes, mode, pos, panicked>>

\* i.next() on an Iter
IterNext ==
    /\ mode = "iter" /\ ~panicked
    /\ it.taken < MaxTaken
    /\ Stepped(Iter_next_terminal(it, nodes, Head_), Head_, "next")

\* i.next_back() on an Iter
IterNextBack ==
    /\ mode = "iter" /\ ~panicked
    /\ it.taken < MaxTaken
    /\ Stepped(Iter_next_terminal(it, nodes, Tail_), Tail_, "next_back")

\* i.next() on an IterMut
IterMutNext ==
    /\ mode = "iter_mut" /\ ~panicked
    /\ it.taken < MaxTaken
    /\ Stepped(IterMut_next_terminal(it, nodes, Head_), Head_, "next")

\* i.next_back() on an IterMut
IterMutNextBack ==
    /\ mode = "iter_mut" /\ ~panicked
    /\ it.taken < MaxTaken
    /\ Stepped(IterMut_next_terminal(it, nodes, Tail_), Tail_, "next_back")

\* *r = v, for r the k-th reference that IterMut handed out at terminal
\* term.  The references live as long as the borrow, so any of them may be
\* written at any time before the iterator's borrow ends.  The write goes
\* to the slot's memory, also in the case where a slot was handed out twice.
IterMutWrite(term, k, v) ==
    /\ mode = "iter_mut" /\ ~panicked
    /\ k \in 1..Len(yielded[term])
    /\ nodes' = [nodes EXCEPT ![yielded[term][k]].value = v]
    /\ last' = Call("write", <<v>>, None)
    /\ UNCHANGED <<script, link, mode, pos, it, yielded, panicked>>

\* The iterator and the references it handed out go out of scope.
IterDrop ==
    /\ mode \in {"iter", "iter_mut"} /\ ~panicked
    /\ mode' = "idle"
    /\ it' = NoIter
    /\ yielded' = NoYield
    /\ last' = Call("iter_drop", <<>>, None)
    /\ UNCHANGED <<script, link, nodes, pos, panicked>>

\* ------------------------------------------------------------------------
\* Specifications
\* ------------------------------------------------------------------------

\* Pushes, pops, cursors and iterators: the calls of a deque with a cursor.
NextDeque ==
    \/ \E v \in Values : PushFront(v)
    \/ \E v \in Values : PushBack(v)
    \/ PopFront
    \/ PopBack
    \/ CursorOpen
    \/ CursorNext
    \/ CursorPrev
    \/ \E v \in Values : CursorInsert(v)
    \/ \E o \in SeekInputs : CursorSeek(o)
    \/ CursorDrop
    \/ IterOpen
    \/ IterNext
    \/ IterNextBack
    \/ IterMutOpen
    \/ IterMutNext
    \/ IterMutNextBack
    \/ \E term \in {Head_, Tail_}, k \in 1..MaxTaken, v \in Values :
            IterMutWrite(term, k, v)
    \/ IterDrop

SpecDeque == Init /\ [][NextDeque]_vars

\* ------------------------------------------------------------------------
\* The scenario of the cursor test: the list [0, 1, 2, 3, 4] is built by
\* push_back, a cursor walks it with next() and prev(), inserts 77 and
\* calls next() up to two more times.
\* ------------------------------------------------------------------------

\* for index in 0..5 { l.push_back(index) }
ScenarioPushBack ==
    /\ Idle
    /\ VecLen(nodes) < ScenarioLen
    /\ SetList(push_terminal(list, VecLen(nodes), Tail_))
    /\ last' = Call("push_back", <<VecLen(nodes)>>, None)
    /\ UNCHANGED <<mode, pos, it, yielded, panicked, script>>

\* let mut c = l.cursor(); on the finished list
ScenarioCursor ==
    /\ Idle
    /\ VecLen(nodes) = ScenarioLen
    /\ mode' = "cursor"
    /\ pos' = link[0]
    /\ last' = Call("cursor", <<>>, None)
    /\ UNCHANGED <<link, nodes, it, yielded, panicked, script>>

\* The scenario has not called insert yet.
Walking == \A k \in 1..Len(script) : script[k] # "insert"

\* The calls made since the insert.
AfterInsert ==
    Len(script) - (CHOOSE k \in 1..Len(script) : script[k] = "insert")

\* c.next(), while walking or after the insert
ScenarioNext ==
    /\ InCursor
    /\ IF Walking THEN Len(script) < MaxWalk ELSE AfterInsert < ScenarioNexts
    /\ LET r == Cursor_next(list, pos) IN
        /\ pos' = r.pos
        /\ last' = Call("cursor_next", <<>>, r.ret)
    /\ script' = Append(script, "next")
    /\ UNCHANGED <<link, nodes, mode, it, yielded, panicked>>

\* c.prev(), while walking
ScenarioPrev ==
    /\ InCursor
    /\ Walking
    /\ Len(script) < MaxWalk
    /\ LET r == Cursor_prev(list, pos) IN
        /\ pos' = r.pos
        /\ last' = Call("cursor_prev", <<>>, r.ret)
    /\ script' = Append(script, "prev")
    /\ UNCHANGED <<link, nodes, mode, it, yielded, panicked>>

\* c.insert(77)
ScenarioInsert ==
    /\ InCursor
    /\ Walking
    /\ LET r == Cursor_insert(list, pos, ScenarioValue) IN
        /\ SetList(r.list)
        /\ pos' = r.pos
        /\ panicked' = r.panic
    /\ last' = Call("cursor_insert", <<ScenarioValue>>, None)
    /\ script' = Append(script, "insert")
    /\ UNCHANGED <<mode, it, yielded>>

NextScenario ==
    \/ ScenarioPushBack
    \/ ScenarioCursor
    \/ ScenarioNext
    \/ ScenarioPrev
    \/ ScenarioInsert

SpecScenario == Init /\ [][NextScenario]_vars


\* The calls above, linearize and the bulk calls on a non-empty input.
NextBulk ==
    \/ NextDeque
    \/ Linearize
    \/ \E seq \in ExtInputs \ {<<>>} : Extend(seq)
    \/ \E seq \in ExtInputs : FromIter(seq)

SpecBulk == Init /\ [][NextBulk]_vars

\* Every public call, extend on an empty input included.
Next ==
    \/ NextBulk
    \/ Extend(<<>>)

Spec == Init /\ [][Next]_vars

\* ------------------------------------------------------------------------
\* The vocabulary of the properties
\* ------------------------------------------------------------------------

\* l.iter().cloned().collect() for term = Head_, and
\* l.iter().rev().cloned().collect() for term = Tail_, continued from the
\* iterator value `i`: the values `i` returns until it returns None.  An
\* iterator that has returned more elements than the vector holds is
\* followed no further.
RECURSIVE collect(_, _, _)
collect(i, ns, term) ==
    IF i.taken > VecLen(ns) THEN <<>>
    ELSE LET r == Iter_next_terminal(i, ns, term)
         IN  IF r.ret.some THEN <<r.ret.val>> \o collect(r.it, ns, term)
             ELSE <<>>

\* Repeated push_back of the elements of seq, from its k-th on.
RECURSIVE push_all(_, _, _)
push_all(l, seq, k) ==
    IF k > Len(seq) THEN l
    ELSE push_all(push_terminal(l, seq[k], Tail_), seq, k + 1)

\* The list after the step.
listNext == [link |-> link', nodes |-> nodes']

\* The logical content of a list: what iter() yields, first to last.
Content(l) == collect(iter(l), l.nodes, Head_)

Reverse(s) == [k \in 1..Len(s) |-> s[Len(s) + 1 - k]]

IsPrefix(s, u) == Len(s) <= Len(u) /\ \A k \in 1..Len(s) : s[k] = u[k]

\* The k-th slot (k from 0) on the way from terminal t along the links that
\* lead away from it; END once the way has left the vector.
RECURSIVE NthFrom(_, _, _)
NthFrom(l, t, k) ==
    IF k = 0 THEN l.link[t]
    ELSE LET p == NthFrom(l, t, k - 1)
         IN  IF InRange(l.nodes, p) THEN l.nodes[p].link[1 - t] ELSE END

\* The first len slots on that way.
Chain(l, t) == [k \in 1..VecLen(l.nodes) |-> NthFrom(l, t, k - 1)]

\* The invariant of the data model: head = END iff the vector is empty iff
\* tail = END; otherwise head and tail are indices whose prev resp. next
\* link is END, the next links lead from head through every slot exactly
\* once to tail, and the prev links lead back from tail in reverse.
WellFormed(l) ==
    LET n == VecLen(l.nodes)
        f == Chain(l, Head_)
        b == Chain(l, Tail_)
    IN  /\ (l.link[0] = END) <=> (n = 0)
        /\ (l.link[1] = END) <=> (n = 0)
        /\ n > 0 =>
            /\ InRange(l.nodes, l.link[0])
            /\ InRange(l.nodes, l.link[1])
            /\ l.nodes[l.link[0]].link[0] = END
            /\ l.nodes[l.link[1]].link[1] = END
            /\ {f[k] : k \in 1..n} = DOMAIN l.nodes
            /\ f[n] = l.link[1]
            /\ b = Reverse(f)

\* Every link of the list is END or an index of the vector.
LinksInRange(l) ==
    /\ \A t \in {0, 1} : l.link[t] = END \/ InRange(l.nodes, l.link[t])
    /\ \A i \in DOMAIN l.nodes : \A t \in {0, 1} :
            l.nodes[i].link[t] = END \/ InRange(l.nodes, l.nodes[i].link[t])


\* ------------------------------------------------------------------------
\* Properties
\* ------------------------------------------------------------------------

\* C1: after any sequence of push_front, push_back, pop_front, pop_back and
\* Cursor::insert calls from List::new(), the list is well formed: head is
\* END iff the vector is empty iff tail is END; otherwise head and tail are
\* indices with prev(head) = END and next(tail) = END, the next links from
\* head visit every slot exactly once and end at tail, and the prev links
\* from tail are the reverse walk.  (SpecDeque)
C1_WellFormedAfterDequeCalls ==
    ~panicked /\ WellFormed(list)

\* A cursor insert has spliced a node between two others of a list whose
\* head is not the first slot of the vector.
C1_Witness ==
    /\ last.op = "cursor_insert"
    /\ VecLen(nodes) = 3
    /\ pos = 2
    /\ InRange(nodes, nodes[2].link[0])
    /\ InRange(nodes, nodes[2].link[1])
    /\ link[0] = 1

\* C2: the list refines a deque.  With Content the sequence iter() yields:
\* push_front(v) prepends v to it, push_back(v) appends v, pop_front
\* returns and removes its first element, pop_back returns and removes its
\* last element, the others keeping their order; on the empty sequence both
\* pops return None.  This holds from every state that pushes, pops and
\* cursor inserts lead to.  (SpecDeque)
C2_DequeRefinement ==
    [][ /\ \A v \in Values :
              PushFront(v) => Content(listNext) = <<v>> \o Content(list)
        /\ \A v \in Values :
              PushBack(v) => Content(listNext) = Append(Content(list), v)
        /\ PopFront =>
              IF Content(list) = <<>>
              THEN last'.ret = None /\ Content(listNext) = <<>>
              ELSE /\ last'.ret = Some(Head(Content(list)))
                   /\ Content(listNext) = Tail(Content(list))
        /\ PopBack =>
              IF Content(list) = <<>>
              THEN last'.ret = None /\ Content(listNext) = <<>>
              ELSE LET c == Content(list) IN
                   /\ last'.ret = Some(c[Len(c)])
                   /\ Content(listNext) = SubSeq(c, 1, Len(c) - 1)
      ]_vars

\* push_back(2), push_front(1), push_back(2) iterates as [1, 2, 2].
C2_Witness ==
    /\ last.op = "push_back"
    /\ VecLen(nodes) = 3
    /\ nodes[0].value = 2 /\ nodes[1].value = 1 /\ nodes[2].value = 2
    /\ Content(list) = <<1, 2, 2>>

\* C3: len() is the number of pushes minus the number of pops that returned
\* a value, for every interleaving of push_front, push_back, pop_front and
\* pop_back: len() is 0 at the start, every push adds exactly one, every
\* pop that returns a value takes exactly one away and a pop that returns
\* None leaves it.  The vector has no holes or leftover slots: iter()
\* yields len() elements.  (SpecDeque)
C3_LenIsNetCount ==
    [][ /\ (\E v \in Values : PushFront(v) \/ PushBack(v)) =>
              VecLen(nodes') = VecLen(nodes) + 1
        /\ (PopFront \/ PopBack) =>
              /\ last'.ret.some => VecLen(nodes') = VecLen(nodes) - 1
              /\ ~last'.ret.some => VecLen(nodes') = VecLen(nodes)
        /\ (\E v \in Values : PushFront(v) \/ PushBack(v)) \/ PopFront \/ PopBack =>
              Len(Content(listNext)) = VecLen(nodes')
      ]_vars

\* Three pushes and one pop that returned a value: len() = 2.
C3_Witness ==
    /\ last.op = "pop_back" /\ last.ret.some
    /\ VecLen(nodes) = 2
    /\ Len(Content(list)) = 2

\* C4: pop_front and pop_back on an empty list return None, no panic, and
\* leave head, tail and the vector as they were.  (SpecDeque)
C4_PopOnEmpty ==
    [][ (PopFront \/ PopBack) /\ VecLen(nodes) = 0 =>
              /\ last'.ret = None
              /\ ~panicked'
              /\ link' = link
              /\ nodes' = nodes
              /\ link' = List_new.link
      ]_vars

\* A pop has just returned None on an empty list.
C4_Witness ==
    /\ last.op \in {"pop_front", "pop_back"}
    /\ ~last.ret.some
    /\ VecLen(nodes) = 0
    /\ link = List_new.link

\* C5: extend() with an empty input is a no-op in every reachable state:
\* head, tail, every node and its links are unchanged.  (Spec)
C5_ExtendEmptyIsNoOp ==
    [][ Extend(<<>>) => link' = link /\ nodes' = nodes ]_vars

\* C6: on a well-formed list, extend(seq) with a non-empty seq leaves
\* exactly the list (vector, links, head, tail) that push_back of each
\* element of seq, in order, leaves; from_iter(seq) leaves the list those
\* push_backs build from List::new().  (SpecBulk)
C6_ExtendIsRepeatedPushBack ==
    [][ /\ last'.op = "extend" /\ last'.arg # <<>> /\ WellFormed(list) =>
              listNext = push_all(list, last'.arg, 1)
        /\ last'.op = "from_iter" /\ last'.arg # <<>> =>
              listNext = push_all(List_new, last'.arg, 1)
      ]_vars

\* push_front(1) and then extend([2, 1]): the list iterates as [1, 2, 1].
C6_Witness ==
    /\ last.op = "extend"
    /\ VecLen(nodes) = 3
    /\ last.arg = <<2, 1>>
    /\ Content(list) = <<1, 2, 1>>
    /\ link[1] = 2

\* C7: every public mutating call keeps the invariants of the data model:
\* head and tail are END exactly when the vector is empty, every link is
\* END or an index of the vector, and the next links from head visit every
\* slot exactly once, ending at tail, with the prev links from tail the
\* reverse walk.  (Spec)
C7_InvariantsPreserved ==
    /\ LinksInRange(list)
    /\ WellFormed(list)

\* C8: the sequence iter() yields and the sequence iter().rev() yields are
\* reverses of each other, and both have len() elements.  (SpecDeque)
C8_IterRevIsReverse ==
    LET fwd == collect(iter(list), nodes, Head_)
        bwd == collect(iter(list), nodes, Tail_)
    IN  /\ bwd = Reverse(fwd)
        /\ Len(fwd) = VecLen(nodes)
        /\ Len(bwd) = VecLen(nodes)

\* push_back(1), push_front(1), push_back(2): iter().rev() yields [2, 1, 1].
C8_Witness ==
    /\ mode = "idle"
    /\ VecLen(nodes) = 3
    /\ link[0] = 1
    /\ collect(iter(list), nodes, Tail_) = <<2, 1, 1>>

\* What the live iterator has handed out so far.
YieldCount == Len(yielded[0]) + Len(yielded[1])

\* C9 (state part): while an iterator is alive, the slots next() handed out
\* are a prefix of the list order, the slots next_back() handed out are a
\* prefix of the reverse order, together at most len() slots and no slot
\* twice; when a call returns None, exactly len() slots have been handed
\* out.
C9_Yields ==
    mode \in {"iter", "iter_mut"} =>
        /\ IsPrefix(yielded[0], Chain(list, Head_))
        /\ IsPrefix(yielded[1], Chain(list, Tail_))
        /\ YieldCount <= VecLen(nodes)
        /\ \A s \in {0, 1}, u \in {0, 1} :
             \A j \in 1..Len(yielded[s]), k \in 1..Len(yielded[u]) :
                 yielded[s][j] = yielded[u][k] => s = u /\ j = k
        /\ it.taken = YieldCount
        /\ (last.op \in {"next", "next_back"} /\ ~last.ret.some) =>
                YieldCount = VecLen(nodes)

\* C9: under any interleaving of next() and next_back() on one iterator of
\* a well-formed list every element is yielded exactly once (C9_Yields),
\* and a value written through the k-th reference that next() (resp.
\* next_back()) returned is what iter() then reports for the k-th element
\* from the front (resp. back), the other elements as before.  (SpecDeque)
C9_EachElementOnce ==
    [][ /\ C9_Yields'
        /\ \A term \in {Head_, Tail_}, k \in 1..MaxTaken, v \in Values :
              IterMutWrite(term, k, v) =>
                  LET c == Content(list)
                      j == IF term = Head_ THEN k ELSE Len(c) + 1 - k
                  IN  Content(listNext) = [c EXCEPT ![j] = v]
      ]_vars

\* An iter_mut() was consumed from both ends until it returned None, and a
\* value was written through the one reference next_back() returned.
C9_Witness ==
    /\ mode = "iter_mut"
    /\ last.op = "write"
    /\ VecLen(nodes) = 3
    /\ Len(yielded[0]) = 2 /\ Len(yielded[1]) = 1
    /\ link[0] # 0
    /\ last.arg = <<2>>
    /\ Content(list) = <<1, 1, 2>>

\* C10: size_hint is exact at every point of an interleaving of next() and
\* next_back(): it is (r, Some(r)) for r = len() minus the number of
\* elements yielded so far, r is the number of elements the iterator still
\* yields (consumed from either end), and the subtraction does not
\* underflow: taken never exceeds len().  (SpecDeque)
C10_SizeHintExact ==
    mode \in {"iter", "iter_mut"} =>
        LET r == VecLen(nodes) - YieldCount IN
        /\ it.taken <= VecLen(nodes)
        /\ size_hint(it, nodes) = <<r, Some(r)>>
        /\ r >= 0
        /\ Len(collect(it, nodes, Head_)) = r
        /\ Len(collect(it, nodes, Tail_)) = r

\* One element from each end of a three-element list: size_hint is (1, Some(1)).
C10_Witness ==
    /\ mode = "iter"
    /\ VecLen(nodes) = 3
    /\ Len(yielded[0]) = 1 /\ Len(yielded[1]) = 1
    /\ size_hint(it, nodes) = <<1, Some(1)>>

\* The logical position of a cursor position: the number of elements before
\* it in list order; len() for END; -1 for an index the list order does
\* not visit.
LogPos(l, p) ==
    LET n == VecLen(l.nodes)
        f == Chain(l, Head_)
    IN  IF p = END THEN n
        ELSE IF \E k \in 1..n : f[k] = p
             THEN (CHOOSE k \in 1..n : f[k] = p) - 1
             ELSE -1

\* The sequence c with v put in front of its (i+1)-th element.
InsertAt(c, i, v) == SubSeq(c, 1, i) \o <<v>> \o SubSeq(c, i + 1, Len(c))

\* C11: Cursor::insert(v) puts v immediately before the element the next
\* next() would have returned (at the back when the position is END) and
\* changes nothing else in the list order; the cursor is left at the new
\* node, whose index is the old len(): the next next() returns v and the
\* one after it the element that was at the cursor, or None if the
\* position was END.  (SpecDeque)
C11_InsertBeforeCursor ==
    [][ last'.op = "cursor_insert" =>
            LET v  == last'.arg[1]
                c  == Content(list)
                i  == LogPos(list, pos)
                r1 == Cursor_next(listNext, pos')
                r2 == Cursor_next(listNext, r1.pos)
            IN  /\ ~panicked'
                /\ i \in 0..Len(c)
                /\ Content(listNext) = InsertAt(c, i, v)
                /\ pos' = VecLen(nodes)
                /\ r1.ret = Some(v)
                /\ r2.ret = IF pos = END THEN None ELSE Some(c[i + 1])
      ]_vars

\* insert(2) with the cursor at the second element of [1, 1]: the list is
\* [1, 2, 1] and the cursor is at the new node, slot 2.
C11_Witness ==
    /\ mode = "cursor"
    /\ last.op = "cursor_insert" /\ last.arg = <<2>>
    /\ Content(list) = <<1, 2, 1>>
    /\ pos = 2
    /\ LogPos(list, pos) = 1

\* n consecutive next() calls from position p: what they return, in call
\* order, and the position after the last.
RECURSIVE next_calls(_, _, _)
next_calls(l, p, n) ==
    IF n = 0 THEN [rets |-> <<>>, pos |-> p]
    ELSE LET r    == Cursor_next(l, p)
             rest == next_calls(l, r.pos, n - 1)
         IN  [rets |-> <<r.ret>> \o rest.rets, pos |-> rest.pos]

\* n consecutive prev() calls from position p.
RECURSIVE prev_calls(_, _, _)
prev_calls(l, p, n) ==
    IF n = 0 THEN [rets |-> <<>>, pos |-> p]
    ELSE LET r    == Cursor_prev(l, p)
             rest == prev_calls(l, r.pos, n - 1)
         IN  [rets |-> <<r.ret>> \o rest.rets, pos |-> rest.pos]

\* The elements of c, each as a returned Some.
Somes(c) == [k \in 1..Len(c) |-> Some(c[k])]

\* C12: forward traversal with a cursor is circular: from the head of a
\* list of length L, L+1 consecutive next() calls return the L elements in
\* list order and then one None, after which the position is the head
\* again and the following next() returns the first element; on an empty
\* list every next() returns None.  (SpecDeque)
C12_NextIsCircular ==
    LET c   == Content(list)
        L   == VecLen(nodes)
        run == next_calls(list, link[0], L + 1)
    IN  /\ run.rets = Somes(c) \o <<None>>
        /\ run.pos = link[0]
        /\ Cursor_next(list, run.pos).ret = IF L = 0 THEN None ELSE Some(c[1])
        /\ L = 0 => \A n \in 1..MaxTaken :
                        \A k \in 1..n : next_calls(list, link[0], n).rets[k] = None

\* The fourth next() of a cursor on a three-element list whose head is not
\* in slot 0 has returned None and the cursor is at the head again.
C12_Witness ==
    /\ mode = "cursor"
    /\ VecLen(nodes) = 3
    /\ link[0] # 0
    /\ last.op = "cursor_next" /\ last.ret = None
    /\ pos = link[0]

\* C13: Cursor::prev mirrors next, at every position p of the list: at the
\* head it returns None and the position becomes END; at END on a
\* non-empty list it returns the tail element and moves there; elsewhere
\* it returns the element before p in list order and moves there.  From
\* the head of a list of length L, L+1 consecutive prev() calls return one
\* None and then the L elements in reverse list order.  (SpecDeque)
C13_PrevMirrorsNext ==
    LET c   == Content(list)
        L   == VecLen(nodes)
        f   == Chain(list, Head_)
        run == prev_calls(list, link[0], L + 1)
    IN  /\ \A p \in DOMAIN nodes \cup {END} :
               LET r == Cursor_prev(list, p)
                   i == LogPos(list, p)
               IN  IF p = link[0]
                   THEN r = [pos |-> END, ret |-> None]
                   ELSE IF p = END
                   THEN r = [pos |-> link[1], ret |-> Some(nodes[link[1]].value)]
                   ELSE /\ i \in 1..(L - 1)
                        /\ r = [pos |-> f[i], ret |-> Some(c[i])]
        /\ run.rets = <<None>> \o Somes(Reverse(c))

\* prev() at END of a three-element list whose tail is not in the last
\* slot has returned the tail element and the cursor is there.
C13_Witness ==
    /\ mode = "cursor"
    /\ VecLen(nodes) = 3
    /\ link[1] # 2
    /\ last.op = "cursor_prev" /\ last.ret = Some(nodes[link[1]].value)
    /\ pos = link[1]
    /\ Content(list) = <<2, 1, 2>>

\* C14, as the specification states it: on [0, 1, 2, 3, 4] built by
\* push_back, a fresh cursor that calls next() once, prev() two times,
\* insert(77) and next() two times leaves the list order
\* [0, 1, 2, 3, 77, 4].  (SpecScenario)
C14_TwoPrevs ==
    script = <<"next", "prev", "prev", "insert", "next", "next">>
        => Content(list) = <<0, 1, 2, 3, 77, 4>>

\* C14, amended: with prev() called three times the list order is
\* [0, 1, 2, 3, 77, 4]; the second prev() is the one that returns None at
\* the head, and it takes the third to reach the last element.
\* (SpecScenario)
C14_ThreePrevs ==
    script = <<"next", "prev", "prev", "prev", "insert", "next", "next">>
        => /\ Content(list) = <<0, 1, 2, 3, 77, 4>>
           /\ Content(list) = Reverse(collect(iter(list), nodes, Tail_))

\* The scenario with three prev() calls has run to its last next(), which
\* returned 4.
C14_Witness ==
    /\ script = <<"next", "prev", "prev", "prev", "insert", "next", "next">>
    /\ last = Call("cursor_next", <<>>, Some(4))
    /\ VecLen(nodes) = 6

Min(a, b) == IF a <= b THEN a ELSE b
Max(a, b) == IF a >= b THEN a ELSE b

\* C15: Seek::Forward(n) moves the cursor n steps forward or at most to
\* the end, Seek::Backward(n) n steps backward or at most to the
\* beginning, never wrapping: from logical position i of a list of length
\* L (L for END) the cursor is left at min(i+n, L), respectively
\* max(i-n, 0); after Forward(n) with n >= L-i the position is END and an
\* insert appends at the back; Seek::Head leaves the position at the head
\* and Seek::Tail at END.  (SpecDeque)
C15_SeekClamps ==
    [][ last'.op = "cursor_seek" =>
            LET o == last'.arg[1]
                L == VecLen(nodes)
                i == LogPos(list, pos)
                j == LogPos(list, pos')
            IN  /\ pos' = END \/ InRange(nodes, pos')
                /\ o.kind = "Forward" =>
                      /\ j = Min(i + o.n, L)
                      /\ o.n >= L - i =>
                            /\ pos' = END
                            /\ \A v \in Values :
                                  Content(Cursor_insert(list, pos', v).list)
                                      = Append(Content(list), v)
                /\ o.kind = "Backward" =>
                      /\ j = Max(i - o.n, 0)
                      /\ j = 0 => pos' = link[0]
                /\ o.kind = "Head" => pos' = link[0]
                /\ o.kind = "Tail" => pos' = END
      ]_vars

\* Backward(2) on a three-element list has left the cursor at the second
\* element, so it started from END and did not stop before two steps.
C15_Witness ==
    /\ mode = "cursor"
    /\ last.op = "cursor_seek" /\ last.arg = <<SeekBackward(2)>>
    /\ VecLen(nodes) = 3
    /\ LogPos(list, pos) = 1
    /\ pos # 1

\* What iter().rev() hands out, in the order it does.
RevContent(l) == collect(iter(l), l.nodes, Tail_)

\* C16: linearize() keeps the list order and makes the order of the slots
\* equal to it: iter() and iter().rev() hand out the same sequences before
\* and after; afterwards, on a non-empty list, the head is slot 0, the tail
\* slot len()-1, and the node in slot k has prev = k-1 and next = k+1, END
\* at the two ends.  (SpecBulk)
C16_LinearizeOrders ==
    [][ last'.op = "linearize" =>
            LET n == VecLen(nodes) IN
            /\ Content(listNext) = Content(list)
            /\ RevContent(listNext) = RevContent(list)
            /\ VecLen(nodes') = n
            /\ n > 0 =>
                  /\ link' = Link2(0, n - 1)
                  /\ \A k \in 0..(n - 1) :
                        /\ nodes'[k].link[0] = IF k = 0 THEN END ELSE k - 1
                        /\ nodes'[k].link[1] = IF k = n - 1 THEN END ELSE k + 1
                        /\ nodes'[k].value = Content(list)[k + 1]
      ]_vars

\* linearize() has been called on a three-element list; its elements
\* [2, 1, 1] stand in the slots 0, 1, 2 in this order.
C16_Witness ==
    /\ last.op = "linearize"
    /\ Content(list) = <<2, 1, 1>>
    /\ RevContent(list) = <<1, 1, 2>>
    /\ Chain(list, Head_) = <<0, 1, 2>>

\* C17: linearize() is idempotent: a second call leaves the list, every
\* link and every slot of it, as the first left it; on an empty list the
\* call changes nothing.  (SpecBulk)
C17_LinearizeIdempotent ==
    [][ last'.op = "linearize" =>
            /\ linearize(listNext) = {listNext}
            /\ last.op = "linearize" => listNext = list
            /\ VecLen(nodes) = 0 => listNext = list
      ]_vars

\* linearize() has been called on the three-element list [2, 1, 2]; a
\* second call is enabled in this state.
C17_Witness ==
    /\ last.op = "linearize"
    /\ mode = "idle"
    /\ Content(list) = <<2, 1, 2>>
    /\ linearize(list) = {list}

\* C18: through the public calls no index handed to nodes[idx] is ever out
\* of range, so that no call panics, and the position of a live cursor is
\* END or a slot of the vector.  (Spec)
C18_NoOutOfRange ==
    /\ ~panicked
    /\ mode = "cursor" => pos = END \/ InRange(nodes, pos)

\* C19: a pop that returns an element relocates at most one of the
\* elements that stay.  With h the vacated slot and m = len()-1 the last
\* one: the vector shrinks by exactly one; if h # m the element of slot m
\* is in slot h afterwards and every link that pointed to m, head and tail
\* included, points to h; every other element keeps its slot and its
\* value; and if h = m no element moves.  The only other links that change
\* are those that pointed to h, which take over the link h had on that
\* side.  (SpecDeque)
C19_PopMovesAtMostOne ==
    [][ last'.op \in {"pop_front", "pop_back"} /\ last'.ret.some =>
            LET t      == IF last'.op = "pop_front" THEN Head_ ELSE Tail_
                h      == link[t]
                n      == VecLen(nodes)
                m      == n - 1
                new(i) == IF i = m THEN h ELSE i
            IN  /\ ~panicked'
                /\ VecLen(nodes') = n - 1
                /\ \A i \in (0..m) \ {h} :
                      /\ nodes'[new(i)].value = nodes[i].value
                      /\ \A s \in {Head_, Tail_} :
                            nodes'[new(i)].link[s] =
                                new(IF nodes[i].link[s] = h
                                    THEN nodes[h].link[s]
                                    ELSE nodes[i].link[s])
                /\ \A s \in {Head_, Tail_} :
                      link'[s] = new(IF link[s] = h
                                     THEN nodes[h].link[opposite(t)]
                                     ELSE link[s])
                /\ Cardinality({i \in (0..m) \ {h} : new(i) # i}) <= 1
      ]_vars

\* pop_front() has returned 1 and left [2, 1] with the head in slot 1 and
\* the tail in slot 0, as when the popped slot was slot 0 of three and the
\* element of slot 2 has moved into it.
C19_Witness ==
    /\ last = Call("pop_front", <<>>, Some(1))
    /\ Content(list) = <<2, 1>>
    /\ link = Link2(1, 0)

\* C20: with the cursor at a slot that is not the head, Cursor::insert
\* appends the new node in slot len() and rewrites exactly two links of
\* the nodes that were there: the next link of the predecessor of the
\* position and the prev link of the node at the position; head, tail,
\* every other link, every value and every slot stay as they were.
\* (SpecDeque)
C20_InsertRewritesTwoLinks ==
    [][ /\ last'.op = "cursor_insert"
        /\ InRange(nodes, pos)
        /\ pos # link[0]
        =>
            LET n    == VecLen(nodes)
                prev == nodes[pos].link[0]
            IN  /\ ~panicked'
                /\ InRange(nodes, prev)
                /\ link' = link
                /\ VecLen(nodes') = n + 1
                /\ nodes'[n] = Node_new(last'.arg[1], prev, pos)
                /\ \A i \in 0..(n - 1) :
                      /\ nodes'[i].value = nodes[i].value
                      /\ nodes'[i].link[0] =
                            IF i = pos THEN n ELSE nodes[i].link[0]
                      /\ nodes'[i].link[1] =
                            IF i = prev THEN n ELSE nodes[i].link[1]
                /\ Cardinality({e \in (0..(n - 1)) \X {Head_, Tail_} :
                       nodes'[e[1]].link[e[2]] # nodes[e[1]].link[e[2]]}) = 2
      ]_vars

\* insert(1) with the cursor at the last of the two elements [2, 2]: the
\* new node is in slot 2 between the slots 0 and 1, head and tail are the
\* slots they were.
C20_Witness ==
    /\ mode = "cursor"
    /\ last.op = "cursor_insert" /\ last.arg = <<1>>
    /\ Content(list) = <<2, 1, 2>>
    /\ Chain(list, Head_) = <<0, 2, 1>>
    /\ link = Link2(0, 1)
    /\ pos = 2

\* The slots the live iterator has handed out, from either end.
Consumed ==
    UNION {{yielded[t][k] : k \in 1..Len(yielded[t])} : t \in {Head_, Tail_}}

\* C21: on every next() or next_back() step of an Iter or IterMut: when
\* its two pointers are equal at a slot, the step hands out that last
\* element and leaves both pointers END; when both are END the step
\* returns None and leaves the iterator as it was; a step hands out an
\* element exactly while fewer than len() were handed out, and never one
\* from a slot that was handed out before, so every interleaving of the
\* two calls ends after exactly len() elements.  (SpecDeque)
C21_ExhaustedStaysExhausted ==
    [][ last'.op \in {"next", "next_back"} /\ mode \in {"iter", "iter_mut"} =>
            LET L == VecLen(nodes) IN
            /\ it.link[0] = it.link[1] /\ it.link[0] # END =>
                  /\ last'.ret = Some(nodes[it.link[0]].value)
                  /\ it'.link = Link2(END, END)
                  /\ it'.taken = L
            /\ it.link = Link2(END, END) =>
                  /\ last'.ret = None
                  /\ it' = it
                  /\ yielded' = yielded
            /\ last'.ret.some <=> it.taken < L
            /\ last'.ret.some =>
                  /\ it'.taken = it.taken + 1
                  /\ Consumed' \ Consumed # {}
                  /\ Cardinality(Consumed') = it'.taken
            /\ it'.taken = L <=> it'.link = Link2(END, END)
      ]_vars

\* An IterMut over three elements, stepped from both ends, has handed out
\* all three, both pointers are END and a later next_back() has returned
\* None.
C21_Witness ==
    /\ mode = "iter_mut"
    /\ VecLen(nodes) = 3
    /\ it = [link |-> Link2(END, END), taken |-> 3]
    /\ Len(yielded[Head_]) = 2 /\ Len(yielded[Tail_]) = 1
    /\ last = Call("next_back", <<>>, None)

\* C22: Cursor next() and prev() are inverse steps: at every slot p of the
\* list, next() and then prev() both return the element of p and leave
\* the cursor at p again; and no next() or prev() step changes head, tail,
\* a link or a slot of the list.  (SpecDeque)
C22_NextPrevInverse ==
    /\ [](\A p \in DOMAIN nodes :
              LET r1 == Cursor_next(list, p)
                  r2 == Cursor_prev(list, r1.pos)
              IN  /\ r1.ret = Some(nodes[p].value)
                  /\ r2.ret = r1.ret
                  /\ r2.pos = p)
    /\ [][ /\ last'.op \in {"cursor_next", "cursor_prev"} => listNext = list
           /\ last.op = "cursor_next" /\ last.ret.some /\ last'.op = "cursor_prev"
                 => /\ last'.ret = last.ret
                    /\ InRange(nodes, pos')
                    /\ nodes[pos'].link[1] = pos
      ]_vars

\* prev() right at the second of the three elements [1, 2, 1], in a slot
\* order that is not the list order, has returned that element, 2.
C22_Witness ==
    /\ mode = "cursor"
    /\ last = Call("cursor_prev", <<>>, Some(2))
    /\ Content(list) = <<1, 2, 1>>
    /\ LogPos(list, pos) = 1
    /\ Chain(list, Head_) # <<0, 1, 2>>

==========================================================================
